---- MODULE Spec2Model ----
(***************************************************************************)
(* A model of the SQLite retrieval engine of lamagent                      *)
(* (src/src/tools/rag-sqlite.tools.ts): the hasher, the chunker, the       *)
(* indexer, the change detector, the similarity search and the retrieval   *)
(* tool with its keyword fallback.                                         *)
(*                                                                         *)
(* Strings are sequences of UTF-16 code units (natural numbers), so that   *)
(* length, slice, trim, split and the rolling hash are computed on the     *)
(* characters as the code computes them.                                   *)
(***************************************************************************)
EXTENDS Integers, Sequences, FiniteSets, TLC

(***************************************************************************)
(* Strings                                                                 *)
(***************************************************************************)
\* The line feed, the character of the paragraph separator '\n\n'.
NL == 10

Rep(c, n) == [i \in 1..n |-> c]

Min2(a, b) == IF a < b THEN a ELSE b
Max2(a, b) == IF a > b THEN a ELSE b

\* String.prototype.trim strips these code units (the ASCII white space and
\* line terminators, NBSP and BOM; the other Unicode spaces are not used here).
IsWhiteSpace(c) == c \in {9, 10, 11, 12, 13, 32, 160, 65279}

\* The one element of a singleton set.  The({e(v) : v \in {d}}) is e(d) with
\* d evaluated once: the way a `const v = d` of the code is written here.
The(S) == CHOOSE x \in S : TRUE

\* String.prototype.slice(start, end): negative indices count from the end.
slice(s, start, end) ==
  LET len  == Len(s)
      from == IF start < 0 THEN Max2(len + start, 0) ELSE Min2(start, len)
      to   == IF end < 0 THEN Max2(len + end, 0) ELSE Min2(end, len)
  IN  IF from < to THEN SubSeq(s, from + 1, to) ELSE <<>>

\* String.prototype.trim.
trim(s) ==
  LET n == Len(s)
  IN  IF \A i \in 1..n : IsWhiteSpace(s[i]) THEN <<>>
      ELSE LET lead  == CHOOSE d \in 0..(n - 1) :
                          /\ ~IsWhiteSpace(s[d + 1])
                          /\ \A e \in 1..d : IsWhiteSpace(s[e])
               trail == CHOOSE d \in 0..(n - 1) :
                          /\ ~IsWhiteSpace(s[n - d])
                          /\ \A e \in 0..(d - 1) : IsWhiteSpace(s[n - e])
           IN  SubSeq(s, lead + 1, n - trail)

\* The number of line feeds immediately before position i.
PrecedingNL(s, i) ==
  CHOOSE d \in 0..(i - 1) :
    /\ \A e \in 1..d : s[i - e] = NL
    /\ (d = i - 1 \/ s[i - d - 1] # NL)

\* text.split('\n\n'): the separator is matched left to right without
\* overlap, so a run of k line feeds holds k \div 2 separators.
splitParagraphs(s) ==
  LET n      == Len(s)
      starts == {i \in 1..(n - 1) :
                   s[i] = NL /\ s[i + 1] = NL /\ PrecedingNL(s, i) % 2 = 0}
      k      == Cardinality(starts)
      nth(j) == CHOOSE m \in starts : Cardinality({x \in starts : x < m}) = j - 1
      from(j) == IF j = 1 THEN 1 ELSE nth(j - 1) + 2
      to(j)   == IF j = k + 1 THEN n ELSE nth(j) - 1
  IN  [j \in 1..(k + 1) |-> SubSeq(s, from(j), to(j))]

\* Array.prototype.filter.
RECURSIVE filterSeq(_, _)
filterSeq(seq, keep) ==
  IF seq = <<>> THEN <<>>
  ELSE (IF Head(seq) \in keep THEN <<Head(seq)>> ELSE <<>>) \o filterSeq(Tail(seq), keep)

(***************************************************************************)
(* chunkText (rag-sqlite.tools.ts 133-202)                                 *)
(***************************************************************************)
chunkSize == 600
overlap == 50
maxTextLength == 100000
truncatedLength == 50000
minParagraphLength == 20
minChunkLength == 10
maxChunkLength == 2000
maxChunks == 500

\* Upper bound on the iterations of one while loop that are unfolded; a loop
\* that has neither left nor repeated its state by then is reported as
\* "fuel" (LoopsSettled checks that this never happens).
MaxIterations == 1024

\* Lines 154 and 180: the guard of chunks.push(chunk) in the window loops.
keepChunk_NoMinimum(chunk) == Len(chunk) <= maxChunkLength

keepChunk(chunk) == Len(chunk) > minChunkLength /\ Len(chunk) <= maxChunkLength

\* Lines 162, 188 and 192: the chunk-count guard of the loops.
tooManyChunks(chunks) == Len(chunks) > maxChunks

\* One iteration of the window loop (lines 150-163 and 176-189, the same
\* code over `text` and over `paragraph`).  st is "loop" while the loop goes
\* on, "exit" once the while condition or a break has ended it, and
\* "diverge" when an iteration leaves start and chunks as they were: every
\* later iteration then does the same and the loop never ends.
windowIteration(t, s) ==
  IF s.st # "loop" THEN s
  ELSE IF ~(s.start < Len(t)) THEN [s EXCEPT !.st = "exit"]
  ELSE The({ The({ IF end - overlap >= Len(t) \/ tooManyChunks(chunks)
                   THEN [start |-> end - overlap, chunks |-> chunks, st |-> "exit"]
                   ELSE IF end - overlap = s.start /\ chunks = s.chunks
                        THEN [start |-> end - overlap, chunks |-> chunks, st |-> "diverge"]
                        ELSE [start |-> end - overlap, chunks |-> chunks, st |-> "loop"] :
                   chunks \in {The({ IF keepChunk(chunk) THEN Append(s.chunks, chunk)
                                     ELSE s.chunks :
                                     chunk \in {trim(slice(t, s.start, end))} })} }) :
             end \in {Min2(s.start + chunkSize, Len(t))} })

\* n iterations of the window loop from s (split in halves to keep the
\* evaluation shallow).
RECURSIVE windowIterations(_, _, _)
windowIterations(t, s, n) ==
  IF n = 0 \/ s.st # "loop" THEN s
  ELSE IF n = 1 THEN windowIteration(t, s)
  ELSE windowIterations(t, windowIterations(t, s, n \div 2), n - (n \div 2))

\* let start = 0; while (start < t.length) { ... } with chunks as it stands.
windowLoop(t, chunks) ==
  The({ [chunks |-> s.chunks, st |-> IF s.st = "loop" THEN "fuel" ELSE s.st] :
        s \in {windowIterations(t, [start |-> 0, chunks |-> chunks, st |-> "loop"],
                                MaxIterations)} })

\* for (const paragraph of paragraphs) { ... } from paragraph i on (168-193).
RECURSIVE paragraphLoop(_, _, _)
paragraphLoop(paragraphs, i, chunks) ==
  IF i > Len(paragraphs) THEN [chunks |-> chunks, st |-> "exit"]
  ELSE The({ IF after.st # "exit" THEN after
             ELSE IF tooManyChunks(after.chunks) THEN after
             ELSE paragraphLoop(paragraphs, i + 1, after.chunks) :
             after \in {IF Len(paragraphs[i]) <= chunkSize
                        THEN [chunks |-> Append(chunks, trim(paragraphs[i])), st |-> "exit"]
                        ELSE windowLoop(paragraphs[i], chunks)} })

\* Line 144: text.split('\n\n').filter((p) => p.trim().length > 20).
paragraphsOf(t) ==
  The({ filterSeq(pieces, {p \in {pieces[j] : j \in 1..Len(pieces)} :
                             Len(trim(p)) > minParagraphLength}) :
        pieces \in {splitParagraphs(t)} })

\* Lines 147-196 for the text t as cut at line 141 and its paragraphs.
chunkParagraphs(t, paragraphs) ==
  The({ IF r.st # "exit" THEN [returns |-> FALSE, st |-> r.st, chunks |-> <<>>]
        ELSE IF Len(paragraphs) = 0 \/ Len(r.chunks) > 0
             THEN [returns |-> TRUE, st |-> "exit", chunks |-> r.chunks]
             ELSE [returns |-> TRUE, st |-> "exit", chunks |-> <<slice(t, 0, chunkSize)>>] :
        r \in {IF Len(paragraphs) = 0 THEN windowLoop(t, <<>>)
               ELSE paragraphLoop(paragraphs, 1, <<>>)} })

\* chunkText(text) with the default chunkSize and overlap.  returns is FALSE
\* when a loop never ends; the catch block (197-201) is not modelled: no
\* statement of the try block throws on a string.
chunkText(text) ==
  The({ The({ chunkParagraphs(t, paragraphs) : paragraphs \in {paragraphsOf(t)} }) :
        t \in {IF Len(text) > maxTextLength THEN slice(text, 0, truncatedLength) ELSE text} })

(***************************************************************************)
(* getFileHash (rag-sqlite.tools.ts 93-104)                                *)
(***************************************************************************)
MinInt32 == -2147483647 - 1
MaxInt32 == -(MinInt32 + 1)

\* a + b wrapped to a signed 32-bit integer, for a and b in that range (the
\* sum is never formed outside it).
AddInt32(a, b) ==
  IF a >= 0 /\ b >= 0
  THEN (IF a > MaxInt32 - b THEN (a + MinInt32) + (b + MinInt32) ELSE a + b)
  ELSE IF a < 0 /\ b < 0
  THEN (IF a < MinInt32 - b THEN (a - MinInt32) + (b - MinInt32) ELSE a + b)
  ELSE a + b

\* The subtraction of line 99 taken as an addition.
NegInt32_Same(a) == a

NegInt32(a) == IF a = MinInt32 THEN MinInt32 ELSE -a

\* hash << 5 on a signed 32-bit integer: bits 0..26 move up, bit 26 becomes
\* the sign.
ShiftLeft5(hash) ==
  LET low == hash % 134217728
  IN  (low % 67108864) * 32 + (IF low >= 67108864 THEN MinInt32 ELSE 0)

\* Lines 99-100: hash = (hash << 5) - hash + char; hash = hash & hash.
hashStep(hash, char) ==
  AddInt32(AddInt32(ShiftLeft5(hash), NegInt32(hash)), char)

\* The loop of lines 97-101 over content[lo..hi], from the value hash (split
\* in halves to keep the evaluation shallow).
RECURSIVE hashLoop(_, _, _, _)
hashLoop(content, lo, hi, hash) ==
  IF lo > hi THEN hash
  ELSE IF lo = hi THEN hashStep(hash, content[lo])
  ELSE The({ hashLoop(content, (lo + hi) \div 2 + 1, hi, h) :
             h \in {hashLoop(content, lo, (lo + hi) \div 2, hash)} })

HexDigit(d) == IF d < 10 THEN 48 + d ELSE 87 + d

\* Number.prototype.toString(16) of a natural number.
RECURSIVE toHex(_)
toHex(n) == IF n < 16 THEN <<HexDigit(n)>> ELSE toHex(n \div 16) \o <<HexDigit(n % 16)>>

\* Math.abs(hash).toString(16); |MinInt32| = 2^31 is "80000000".
absHex(hash) ==
  IF hash = MinInt32 THEN <<56, 48, 48, 48, 48, 48, 48, 48>>
  ELSE toHex(IF hash < 0 THEN -hash ELSE hash)

getFileHash(content) == absHex(hashLoop(content, 1, Len(content), 0))

(***************************************************************************)
(* The documents directory, the documents table and the embedding provider *)
(***************************************************************************)
\* join(docsDir, file) of the markdown files of 'docs', in readdirSync order.
PathOrder == <<"docs/a.md", "docs/b.md">>

Paths == {PathOrder[i] : i \in 1..Len(PathOrder)}

\* File contents.  ContentA ("Aa" and twenty x) and ContentB ("BB" and
\* twenty x) are different texts with the same getFileHash ("204d3e40");
\* ContentTwo is two paragraphs; ContentEmpty is the empty file.
ContentA == <<65, 97>> \o Rep(120, 20)
ContentB == <<66, 66>> \o Rep(120, 20)
ContentTwo == Rep(121, 21) \o <<NL, NL>> \o Rep(122, 21)
ContentEmpty == <<>>

\* A file with the line "Install" between two lines of x.
ContentInstall ==
  Rep(120, 15) \o <<NL, 73, 110, 115, 116, 97, 108, 108, NL>> \o Rep(120, 5)

\* A file of five characters, on which chunkText does not return.
ContentHang == Rep(120, 5)

\* A document with the line "Rust" and none of the words of line 727.
ContentRust == Rep(120, 15) \o <<NL, 82, 117, 115, 116, NL>> \o Rep(120, 5)

Contents == {ContentA, ContentB, ContentTwo, ContentEmpty}

\* What a path holds on disk: no file (a sequence that is no content of the
\* model) or a content.
NoFile == <<0>>

\* Vectors the embedding provider returns (small integers: the Float32Array
\* round trip of lines 322 and 387 leaves them as they are).
Embeddings == {<<5, 0>>}

\* `${filePath}_chunk_${chunkIndex}` (line 317).  The pair stands for the
\* string: the text after the last "_chunk_" is the index and the text
\* before it the path, so two pairs give the same string only if equal.
chunkId(filePath, chunkIndex) == <<filePath, chunkIndex>>

\* The row of line 324 (file_name and file_type follow from file_path;
\* created_at is left out, see searchSimilar).
newRow(filePath, chunkIndex, chunk, embedding, fileHash) ==
  [id |-> chunkId(filePath, chunkIndex), text |-> chunk, embedding |-> embedding,
   file_path |-> filePath, chunk_index |-> chunkIndex, file_hash |-> fileHash]

\* SELECT COUNT(*) FROM documents WHERE file_path = ? AND file_hash = ? (288).
countByPathHash_Zero(rows, filePath, fileHash) == 0

countByPathHash(rows, filePath, fileHash) ==
  Cardinality({r \in rows : r.file_path = filePath /\ r.file_hash = fileHash})

\* DELETE FROM documents WHERE file_path = ? (296).
deleteByPath_Nothing(rows, filePath) == rows

deleteByPath_Everything(rows, filePath) == {}

deleteByPath(rows, filePath) == {r \in rows : r.file_path # filePath}

\* insertStmt.run (324): id is the PRIMARY KEY, a second row with an id
\* that is stored throws.
insertRow(rows, row) ==
  IF \E r \in rows : r.id = row.id
  THEN [threw |-> TRUE, rows |-> rows]
  ELSE [threw |-> FALSE, rows |-> rows \cup {row}]

\* DELETE FROM documents (529).
deleteAll_Nothing(rows) == rows

deleteAll(rows) == {}

\* SELECT DISTINCT file_path FROM documents (443-446).
getIndexedFiles_None(rows) == {}

getIndexedFiles(rows) == {r.file_path : r \in rows}

rowsOf(rows, filePath) == {r \in rows : r.file_path = filePath}

VARIABLES
  disk,    \* the docs directory: [exists, files]
  db,      \* the rows of the documents table
  tasks,   \* per path, the indexDocument call in flight or last ended
  call,    \* the call the client of the store is in
  scan     \* what checkForNewFiles has just returned (forgotten at the next step)

storeVars == <<disk, db, tasks, call, scan>>

\* No scan result at hand, and no call made yet.
NoScan == [status |-> "none", newFiles |-> <<>>, changedFiles |-> <<>>, allFiles |-> <<>>]

NoCall == [op |-> "none", path |-> "", threw |-> FALSE]

existsSync(d, filePath) == d.exists /\ d.files[filePath] # NoFile

\* readdirSync(docsDir).filter(file => file.endsWith('.md')), joined.
markdownFiles(d) == filterSeq(PathOrder, {f \in Paths : d.files[f] # NoFile})

(***************************************************************************)
(* indexDocument (283-337)                                                 *)
(***************************************************************************)
batchSize == 3

\* No indexDocument call for the path.
IdleTask ==
  [pc |-> "idle", content |-> <<>>, fileHash |-> <<>>, chunks |-> <<>>, i |-> 0,
   requests |-> 0, stored |-> {}, skipped |-> FALSE, oldHashes |-> {},
   repeat |-> FALSE, firstStored |-> 0]

\* Lines 284-301: indexDocument up to its first await.  pc is "embed" when
\* the call waits for the embedding of chunk i, "done" when it has returned
\* and "hung" when chunkText does not return.  requests, stored, skipped and
\* oldHashes record what the call did and the hashes it found for the path.
indexDocumentStart(rows, filePath, content) ==
  The({ IF countByPathHash(rows, filePath, base.fileHash) > 0
        THEN [rows |-> rows, task |-> [base EXCEPT !.pc = "done", !.skipped = TRUE]]
        ELSE The({ [rows |-> deleteByPath(rows, filePath),
                    task |-> IF ~chunks.returns THEN [base EXCEPT !.pc = "hung"]
                             ELSE [base EXCEPT !.chunks = chunks.chunks,
                                     !.pc = IF Len(chunks.chunks) = 0 THEN "done"
                                            ELSE "embed"]] :
                   chunks \in {chunkText(content)} }) :
        base \in {[IdleTask EXCEPT !.content = content, !.fileHash = getFileHash(content),
                     !.oldHashes = {r.file_hash : r \in rowsOf(rows, filePath)}]} })

\* Where the call goes after chunk i (0-based) has been handled: to the
\* pause of line 333 at the end of a batch, else to the next chunk.
afterChunk(task) ==
  IF (task.i + 1) % batchSize = 0 \/ task.i + 1 = Len(task.chunks)
  THEN "pause" ELSE "embed"

\* Lines 319-326: the embedding of chunk i arrives and the row is inserted;
\* a failing insert is caught like a failing embedding (327-329).
EmbedOk(filePath) ==
  /\ tasks[filePath].pc = "embed"
  /\ \E embedding \in Embeddings :
       LET t   == tasks[filePath]
           ins == insertRow(db, newRow(filePath, t.i, t.chunks[t.i + 1], embedding, t.fileHash))
       IN  /\ db' = ins.rows
           /\ tasks' = [tasks EXCEPT ![filePath] =
                          [t EXCEPT !.i = t.i + 1, !.requests = t.requests + 1,
                             !.stored = IF ins.threw THEN t.stored ELSE t.stored \cup {t.i},
                             !.pc = afterChunk(t)]]
  /\ UNCHANGED <<disk, call>>

\* The catch block of lines 327-329: the error is logged and the inner
\* loop goes on with the next chunk.
skipChunk_Abort(task) ==
  [task EXCEPT !.i = task.i + 1, !.requests = task.requests + 1, !.pc = "done"]

skipChunk(task) ==
  [task EXCEPT !.i = task.i + 1, !.requests = task.requests + 1, !.pc = afterChunk(task)]

\* Lines 327-329: getEmbedding throws, the chunk is skipped.
EmbedFail(filePath) ==
  /\ tasks[filePath].pc = "embed"
  /\ tasks' = [tasks EXCEPT ![filePath] = skipChunk(tasks[filePath])]
  /\ UNCHANGED <<disk, db, call>>

\* Line 333 and the loop head of line 310: the pause ends.
PauseOver(filePath) ==
  /\ tasks[filePath].pc = "pause"
  /\ LET t == tasks[filePath]
     IN  tasks' = [tasks EXCEPT ![filePath] =
                     [t EXCEPT !.pc = IF t.i < Len(t.chunks) THEN "embed" ELSE "done"]]
  /\ UNCHANGED <<disk, db, call>>

(***************************************************************************)
(* checkForNewFiles (469-494) and refreshIndex (517-543)                   *)
(***************************************************************************)
\* The answers of SELECT file_hash ... WHERE file_path = ? LIMIT 1 (485):
\* for every indexed path the hash of one of its rows, whichever SQLite
\* meets first.
storedHashes(rows) ==
  {s \in [getIndexedFiles(rows) -> {r.file_hash : r \in rows}] :
     \A f \in getIndexedFiles(rows) : s[f] \in {r.file_hash : r \in rowsOf(rows, f)}}

\* Line 487: the stored hash differs from the hash of the file as it is.
hashDiffers_Never(storedHash, currentHash) == FALSE

hashDiffers_Always(storedHash, currentHash) == TRUE

hashDiffers(storedHash, currentHash) == storedHash # currentHash

\* checkForNewFiles(docsDir) with `stored` the answers of line 485.
\* readdirSync throws when the directory is missing.
checkForNewFiles(d, rows, stored) ==
  IF ~d.exists THEN [NoScan EXCEPT !.status = "threw"]
  ELSE LET allFiles     == markdownFiles(d)
           indexedFiles == getIndexedFiles(rows)
           newFiles     == filterSeq(allFiles, {f \in Paths : f \notin indexedFiles})
           changed      == {f \in indexedFiles :
                              /\ existsSync(d, f)
                              /\ hashDiffers(stored[f], getFileHash(d.files[f]))}
       IN  [status |-> "returned", newFiles |-> newFiles,
            changedFiles |-> filterSeq(PathOrder, changed), allFiles |-> allFiles]

IdleTasks == [f \in Paths |-> IdleTask]

\* A chunkText that does not return keeps the thread: nothing else runs.
Hung == \E f \in Paths : tasks[f].pc = "hung"

\* No call of the client is in flight.
CallComplete == \A f \in Paths : tasks[f].pc \in {"idle", "done"}

\* Lines 533-538: the synchronous start of the callbacks of refreshIndex,
\* one file after the other, each up to its first await.  For a file of
\* `unreadable` readFileSync throws (535) and the callback's promise is
\* rejected (pc "threw"); map goes on with the next file.
RECURSIVE refreshStart(_, _, _, _, _)
refreshStart(d, rows, files, started, unreadable) ==
  IF files = <<>> \/ \E f \in Paths : started[f].pc = "hung"
  THEN [rows |-> rows, tasks |-> started]
  ELSE IF Head(files) \in unreadable
  THEN refreshStart(d, rows, Tail(files),
                    [started EXCEPT ![Head(files)] = [IdleTask EXCEPT !.pc = "threw"]],
                    unreadable)
  ELSE The({ refreshStart(d, r.rows, Tail(files),
                          [started EXCEPT ![Head(files)] = r.task], unreadable) :
             r \in {indexDocumentStart(rows, Head(files), d.files[Head(files)])} })

\* The client awaits indexDocument(filePath, content).
IndexDocumentCall(filePath, content) ==
  /\ CallComplete
  /\ \E r \in {indexDocumentStart(db, filePath, content)} :
     LET repeat == /\ call.op = "indexDocument"
                   /\ call.path = filePath
                   /\ tasks[filePath].pc = "done"
                   /\ tasks[filePath].content = content
     IN  /\ db' = r.rows
         /\ tasks' = [IdleTasks EXCEPT ![filePath] =
                        [r.task EXCEPT !.repeat = repeat,
                           !.firstStored = IF repeat THEN Cardinality(tasks[filePath].stored)
                                           ELSE 0]]
  /\ call' = [op |-> "indexDocument", path |-> filePath, threw |-> FALSE]
  /\ scan' = NoScan
  /\ UNCHANGED disk

\* The test of line 521, !existsSync(docsDir).
directoryMissing_Never(d) == FALSE

directoryMissing(d) == ~d.exists

\* The client awaits refreshIndex(): it throws when the directory is
\* missing (521-523), else clears the table (529) and starts one
\* indexDocument per markdown file (533-540).  Every file is readable.
RefreshIndexCall ==
  /\ CallComplete
  /\ IF directoryMissing(disk)
     THEN /\ call' = [op |-> "refreshIndex", path |-> "", threw |-> TRUE]
          /\ tasks' = IdleTasks
          /\ UNCHANGED db
     ELSE \E r \in {refreshStart(disk, deleteAll(db), markdownFiles(disk), IdleTasks, {})} :
              /\ call' = [op |-> "refreshIndex", path |-> "", threw |-> FALSE]
              /\ db' = r.rows
              /\ tasks' = r.tasks
  /\ scan' = NoScan
  /\ UNCHANGED disk

\* The client calls checkForNewFiles('docs').
CheckForNewFilesCall ==
  /\ CallComplete
  /\ \E stored \in storedHashes(db) : scan' = checkForNewFiles(disk, db, stored)
  /\ UNCHANGED <<disk, db, tasks, call>>

\* The process ends while a call is in flight (or is killed when hung).
KillProcess ==
  /\ ~CallComplete
  /\ tasks' = IdleTasks
  /\ call' = NoCall
  /\ scan' = NoScan
  /\ UNCHANGED <<disk, db>>

(***************************************************************************)
(* The documents directory changes under the program.                      *)
(***************************************************************************)
WriteFile(filePath, content) ==
  /\ disk.exists
  /\ disk.files[filePath] # content
  /\ disk' = [disk EXCEPT !.files[filePath] = content]

RemoveFile(filePath) ==
  /\ disk.exists
  /\ disk.files[filePath] # NoFile
  /\ disk' = [disk EXCEPT !.files[filePath] = NoFile]

RemoveDocsDir ==
  /\ disk.exists
  /\ disk' = [exists |-> FALSE, files |-> [f \in Paths |-> NoFile]]

MakeDocsDir ==
  /\ ~disk.exists
  /\ disk' = [disk EXCEPT !.exists = TRUE]

DiskChange ==
  \/ \E f \in Paths, c \in Contents : WriteFile(f, c)
  \/ \E f \in Paths : RemoveFile(f)
  \/ RemoveDocsDir
  \/ MakeDocsDir


(***************************************************************************)
(* cosineSimilarity (249-259) and searchSimilar (364-418)                  *)
(*                                                                         *)
(* Embeddings are integer vectors of integer magnitude, so a score is the  *)
(* exact fraction num/den with den > 0 and Math.sqrt is exact.             *)
(***************************************************************************)
Score(n, d) == [num |-> n, den |-> d]

\* The number NaN as an entry of a vector, written as an integer that no
\* embedding and no sum of products of the model reaches, and NaN as a
\* score, 0/0.
NaN == -1073741824

NotANumber == Score(0, 0)

\* x * y and x + y of numbers: NaN if an operand is NaN.
times(x, y) == IF x = NaN \/ y = NaN THEN NaN ELSE x * y

plus(x, y) == IF x = NaN \/ y = NaN THEN NaN ELSE x + y

\* a.reduce((sum, ai, i) => sum + ai * b[i], 0) over the first n entries.
RECURSIVE sumOfProducts(_, _, _)
sumOfProducts(a, b, n) ==
  IF n = 0 THEN 0 ELSE plus(sumOfProducts(a, b, n - 1), times(a[n], b[n]))

\* Math.sqrt on the squares that occur, and on NaN.
Sqrt(n) == IF n = NaN THEN NaN ELSE CHOOSE r \in 0..n : r * r = n

\* The test of line 256: NaN === 0 is false.
zeroMagnitude_Never(magnitudeA, magnitudeB) == FALSE

zeroMagnitude(magnitudeA, magnitudeB) == magnitudeA = 0 \/ magnitudeB = 0

\* dotProduct / (magnitudeA * magnitudeB) (258): NaN if an operand is NaN,
\* and 0/0 is NaN.
quotient(dotProduct, magnitudeA, magnitudeB) ==
  IF dotProduct = NaN \/ magnitudeA = NaN \/ magnitudeB = NaN THEN NotANumber
  ELSE Score(dotProduct, magnitudeA * magnitudeB)

cosineSimilarity(a, b) ==
  IF Len(a) # Len(b) THEN Score(0, 1)
  ELSE LET dotProduct == sumOfProducts(a, b, Len(a))
           magnitudeA == Sqrt(sumOfProducts(a, a, Len(a)))
           magnitudeB == Sqrt(sumOfProducts(b, b, Len(b)))
       IN  IF zeroMagnitude(magnitudeA, magnitudeB) THEN Score(0, 1)
           ELSE quotient(dotProduct, magnitudeA, magnitudeB)

\* score > n/d, for d > 0; false when the score is NaN.
scoreAbove(score, n, d) == score.num * d > n * score.den

\* The filter of line 414: result.score > 0.1.
isRelevant_AboveZero(result) == scoreAbove(result.score, 0, 1)

isRelevant(result) == scoreAbove(result.score, 1, 10)

\* The comparator of line 417, (a, b) => b.score - a.score, by its sign.
compareScores(a, b) == b.score.num * a.score.den - a.score.num * b.score.den

\* Array.prototype.sort with that comparator: a stable sort.
RECURSIVE sortResults(_)
sortResults(results) ==
  IF results = <<>> THEN <<>>
  ELSE LET n      == Len(results)
           sorted == sortResults(SubSeq(results, 1, n - 1))
           x      == results[n]
           k      == Cardinality({i \in 1..Len(sorted) : compareScores(sorted[i], x) <= 0})
       IN  SubSeq(sorted, 1, k) \o <<x>> \o SubSeq(sorted, k + 1, Len(sorted))

\* The orders in which SELECT * ... ORDER BY created_at DESC (371) can hand
\* out the rows: created_at has a resolution of one second, rows of one
\* second come in any order.
rowOrders(rows) ==
  {s \in [1..Cardinality(rows) -> rows] :
     \A i, j \in 1..Cardinality(rows) : i # j => s[i] # s[j]}

\* Lines 382-417 for the query embedding and the rows as selected.
searchSimilar(documents, queryEmbedding, topK) ==
  LET scored  == [i \in 1..Len(documents) |->
                   [text        |-> documents[i].text,
                    score       |-> cosineSimilarity(queryEmbedding, documents[i].embedding),
                    file_path   |-> documents[i].file_path,
                    chunk_index |-> documents[i].chunk_index]]
      results == filterSeq(scored, {scored[i] : i \in {j \in 1..Len(scored) : isRelevant(scored[j])}})
  IN  slice(sortResults(results), 0, topK)


(***************************************************************************)
(* ragSQLiteTool.execute (678-740) and getOrCreateVectorStore (578-633)    *)
(***************************************************************************)
VARIABLES
  vectorStore,  \* the module-level handle (553): "null", "open", or "closed"/"exited" once the process has ended
  exec,         \* per retrieval call, where it is and what it returned
  startup       \* the startup refresh of getOrCreateVectorStore

toolVars == <<vectorStore, exec, startup>>

\* The number of retrieval calls that overlap.
MaxCalls == 2

Calls == 1..MaxCalls

\* What the embedding model can answer for a query: with the document
\* embedding <<5, 0>> the scores are 1, 0 and 11/61 (between 0.1 and 0.2).
QueryEmbeddings == {<<5, 0>>, <<0, 5>>, <<11, 60>>}

NoResult == [kind |-> "none", entries |-> <<>>, text |-> <<>>]

IdleCall == [pc |-> "idle", result |-> NoResult]

NoStartup ==
  [status |-> "none", owner |-> 0, queue |-> <<>>, current |-> "", upToDate |-> {},
   constructed |-> 0]

\* String.prototype.toLowerCase on the ASCII letters.
toLowerCase(s) == [i \in 1..Len(s) |-> IF s[i] \in 65..90 THEN s[i] + 32 ELSE s[i]]

\* String.prototype.includes.
includes(s, sub) ==
  \E i \in 1..(Len(s) - Len(sub) + 1) : SubSeq(s, i, i + Len(sub) - 1) = sub

\* split('\n') (728).
RECURSIVE splitLines(_)
splitLines(s) ==
  IF \A i \in 1..Len(s) : s[i] # NL THEN <<s>>
  ELSE LET k == CHOOSE i \in 1..Len(s) : s[i] = NL /\ \A j \in 1..(i - 1) : s[j] # NL
       IN  <<SubSeq(s, 1, k - 1)>> \o splitLines(SubSeq(s, k + 1, Len(s)))

\* join('\n') (731).
RECURSIVE joinLines(_)
joinLines(lines) ==
  IF lines = <<>> THEN <<>>
  ELSE IF Len(lines) = 1 THEN lines[1]
  ELSE lines[1] \o <<NL>> \o joinLines(Tail(lines))

\* The name of a file of the directory, as readdirSync gives it.
fileName(filePath) ==
  IF filePath = "docs/a.md" THEN <<97, 46, 109, 100>> ELSE <<98, 46, 109, 100>>

\* 'wasm-pack', 'prerequisite', 'install' (727), and with 'node.js' and
\* 'rust' the words of the line filter (729).
wasmPack == <<119, 97, 115, 109, 45, 112, 97, 99, 107>>

prerequisite == <<112, 114, 101, 114, 101, 113, 117, 105, 115, 105, 116, 101>>

install == <<105, 110, 115, 116, 97, 108, 108>>

nodeJs == <<110, 111, 100, 101, 46, 106, 115>>

rust == <<114, 117, 115, 116>>

\* Lines 717-721: allContent += `\n\n=== ${mdFile} ===\n${content}`.
RECURSIVE allContentOf(_, _)
allContentOf(d, files) ==
  IF files = <<>> THEN <<>>
  ELSE <<NL, NL, 61, 61, 61, 32>> \o fileName(Head(files)) \o <<32, 61, 61, 61, NL>>
         \o d.files[Head(files)] \o allContentOf(d, Tail(files))

\* The queries of the calls: "install", "Rust" and "xxx".
Queries == {install, <<82, 117, 115, 116>>, Rep(120, 3)}

\* The test of line 727 on the lowered content; lowerQuery (724) is not
\* looked at.
contentMatches_Query(lowerContent, lowerQuery) == includes(lowerContent, lowerQuery)

contentMatches(lowerContent, lowerQuery) ==
  \E w \in {wasmPack, prerequisite, install} : includes(lowerContent, w)

\* The catch block of execute (707-739): the keyword scan of the files, its
\* generic message, or the final message when reading the directory throws.
fallbackSearch(d, query) ==
  IF ~d.exists THEN [NoResult EXCEPT !.kind = "searchFailed"]
  ELSE LET allContent   == allContentOf(d, markdownFiles(d))
           lowerQuery   == toLowerCase(query)
           lowerContent == toLowerCase(allContent)
           lines        == splitLines(allContent)
           relevant     == {i \in 1..Len(lines) :
                              \E w \in {install, prerequisite, wasmPack, nodeJs, rust} :
                                includes(toLowerCase(lines[i]), w)}
           relevantLines == filterSeq([i \in 1..Len(lines) |-> <<i, lines[i]>>],
                                      {<<i, lines[i]>> : i \in relevant})
       IN  IF contentMatches(lowerContent, lowerQuery)
           THEN [NoResult EXCEPT !.kind = "fallbackLines",
                   !.text = joinLines([i \in 1..Len(slice(relevantLines, 0, 10)) |->
                                         relevantLines[i][2]])]
           ELSE [NoResult EXCEPT !.kind = "fallbackMessage"]

\* Math.round(r.score * 100) (695).
scorePercent(score) == (200 * score.num + score.den) \div (2 * score.den)

\* Number.prototype.toString of a natural number, in template literals.
RECURSIVE decimal(_)
decimal(n) == IF n < 10 THEN <<48 + n>> ELSE decimal(n \div 10) \o <<48 + (n % 10)>>

\* The word of line 696 between the percentage and the text.
relevance == <<1088, 1077, 1083, 1077, 1074, 1072, 1085, 1090, 1085, 1086, 1089, 1090>>

\* The template literal of line 696: `[${i + 1}] (${scorePercent}% ...) ${r.text}`,
\* for i counted from 1.
formatResult(i, r) ==
  <<91>> \o decimal(i) \o <<93, 32, 40>> \o decimal(scorePercent(r.score))
    \o <<37, 32>> \o relevance \o <<41, 32>> \o r.text

\* join('\n\n') (698).
RECURSIVE joinParagraphs(_)
joinParagraphs(parts) ==
  IF parts = <<>> THEN <<>>
  ELSE IF Len(parts) = 1 THEN parts[1]
  ELSE parts[1] \o <<NL, NL>> \o joinParagraphs(Tail(parts))

\* The filter of line 693: r.score > 0.2.
isPassing_Always(r) == TRUE

isPassing(r) == scoreAbove(r.score, 1, 5)

\* Lines 684-706: what execute returns for the results of searchSimilar:
\* the message of line 688, the combined text, or the message of line 706
\* when the combined text is the empty string.
assemble(results) ==
  IF Len(results) = 0 THEN [NoResult EXCEPT !.kind = "noneFound"]
  ELSE The({ The({ IF combinedText = <<>> THEN [NoResult EXCEPT !.kind = "notEnough"]
                   ELSE [NoResult EXCEPT !.kind = "combined",
                           !.entries = [i \in 1..Len(passing) |->
                                          [n |-> i, percent |-> scorePercent(passing[i].score),
                                           text |-> passing[i].text]],
                           !.text = combinedText] :
                   combinedText \in {joinParagraphs([i \in 1..Len(passing) |->
                                                       formatResult(i, passing[i])])} }) :
             passing \in {filterSeq(results, {results[i] : i \in {j \in 1..Len(results) :
                                                isPassing(results[j])}})} })

\* A file that the scan finds indexed under the hash of its content.
upToDateFiles(d, rows) ==
  {f \in Paths : /\ existsSync(d, f)
                 /\ rowsOf(rows, f) # {}
                 /\ \A r \in rowsOf(rows, f) : r.file_hash = getFileHash(d.files[f])}

\* The loops of lines 600-616 at the head of an iteration: readFileSync of
\* the next file and indexDocument up to its first await, or the end of the
\* refresh (618-626).  readFileSync throws when the file is gone or cannot
\* be read (readable is false).
startNextFile(d, rows, ts, su, readable) ==
  IF su.queue = <<>>
  THEN [rows |-> rows, tasks |-> ts, outcome |-> "returned",
        startup |-> [su EXCEPT !.status = "done", !.current = ""]]
  ELSE LET filePath == Head(su.queue)
       IN  IF ~existsSync(d, filePath) \/ ~readable
           THEN [rows |-> rows, tasks |-> ts, outcome |-> "threw",
                 startup |-> [su EXCEPT !.status = "failed", !.current = ""]]
           ELSE The({ [rows |-> r.rows, tasks |-> [ts EXCEPT ![filePath] = r.task],
                       outcome |-> "awaiting",
                       startup |-> [su EXCEPT !.queue = Tail(su.queue),
                                      !.current = filePath]] :
                      r \in {indexDocumentStart(rows, filePath, d.files[filePath])} })

ProcessRuns == vectorStore \in {"null", "open"}

\* The test of line 579, !vectorStore.
storeMissing_UntilRefreshed == vectorStore = "null" \/ startup.status = "running"

storeMissing_OrFailed == vectorStore = "null" \/ startup.status = "failed"

storeMissing == vectorStore = "null"

\* execute is called while the store exists (579, 632): the call goes on to
\* searchSimilar and waits for the embedding of the query.
ExecuteCallWithStore(e) ==
  /\ ProcessRuns /\ ~Hung
  /\ exec[e].pc \in {"idle", "returned"}
  /\ ~storeMissing
  /\ exec' = [exec EXCEPT ![e] = [pc |-> "search", result |-> NoResult]]
  /\ UNCHANGED <<vectorStore, startup, storeVars>>

\* execute is called first: the store is constructed (580) and, when the
\* directory exists, scanned, and the first file is read and given to
\* indexDocument (587-602); when the read fails the catch block answers.
ExecuteCallFirst(e) ==
  /\ ProcessRuns /\ ~Hung
  /\ exec[e].pc \in {"idle", "returned"}
  /\ storeMissing
  /\ vectorStore' = "open"
  /\ IF ~disk.exists
     THEN /\ startup' = [NoStartup EXCEPT !.status = "done", !.owner = e,
                                          !.constructed = startup.constructed + 1]
          /\ exec' = [exec EXCEPT ![e] = [pc |-> "search", result |-> NoResult]]
          /\ UNCHANGED <<db, tasks, scan>>
     ELSE \E stored \in storedHashes(db), readable \in BOOLEAN, query \in Queries :
          \E found \in {checkForNewFiles(disk, db, stored)} :
          \E n \in {startNextFile(disk, db, tasks,
                                  [status |-> "running", owner |-> e,
                                   queue |-> found.newFiles \o found.changedFiles,
                                   current |-> "", upToDate |-> upToDateFiles(disk, db),
                                   constructed |-> startup.constructed + 1], readable)} :
                /\ scan' = found
                /\ db' = n.rows
                /\ tasks' = n.tasks
                /\ startup' = n.startup
                /\ exec' = [exec EXCEPT ![e] =
                              IF n.outcome = "returned" THEN [pc |-> "search", result |-> NoResult]
                              ELSE IF n.outcome = "threw"
                                   THEN [pc |-> "returned",
                                         result |-> fallbackSearch(disk, query)]
                                   ELSE [pc |-> "store", result |-> NoResult]]
  /\ UNCHANGED <<disk, call>>

\* execute is called first and new SQLiteVectorStore() throws (580): the
\* handle stays null and the catch block answers.
ExecuteCallNoStore(e, query) ==
  /\ ProcessRuns /\ ~Hung
  /\ exec[e].pc \in {"idle", "returned"}
  /\ storeMissing
  /\ exec' = [exec EXCEPT ![e] = [pc |-> "returned", result |-> fallbackSearch(disk, query)]]
  /\ UNCHANGED <<vectorStore, startup, storeVars>>

\* The pause of 200 ms after a file is over (605, 615): the next file, or
\* the end of the refresh and the owner's searchSimilar, or a failing read
\* and the owner's catch block.
NextFile ==
  /\ tasks[startup.current].pc = "done"
  /\ \E readable \in BOOLEAN, query \in Queries :
     \E n \in {startNextFile(disk, db, tasks, startup, readable)}, e \in {startup.owner} :
         /\ db' = n.rows
         /\ tasks' = n.tasks
         /\ startup' = n.startup
         /\ exec' = [exec EXCEPT ![e] =
                       IF n.outcome = "returned" THEN [pc |-> "search", result |-> NoResult]
                       ELSE IF n.outcome = "threw"
                            THEN [pc |-> "returned", result |-> fallbackSearch(disk, query)]
                            ELSE exec[e]]
  /\ UNCHANGED <<vectorStore, disk, call, scan>>

\* A step of the startup refresh.
StartupStep ==
  /\ ProcessRuns /\ ~Hung
  /\ startup.status = "running"
  /\ \/ /\ \/ EmbedOk(startup.current)
           \/ EmbedFail(startup.current)
           \/ PauseOver(startup.current)
        /\ UNCHANGED <<scan, toolVars>>
     \/ NextFile

\* The embedding of the query arrives (368), the rows are selected and
\* ranked, and execute returns (684-706).
SearchOk(e) ==
  /\ ProcessRuns /\ ~Hung
  /\ exec[e].pc = "search"
  /\ \E queryEmbedding \in QueryEmbeddings, documents \in rowOrders(db) :
       exec' = [exec EXCEPT ![e] =
                  [pc |-> "returned",
                   result |-> assemble(searchSimilar(documents, queryEmbedding, 3))]]
  /\ UNCHANGED <<vectorStore, startup, storeVars>>

\* getEmbedding or the SELECT of searchSimilar throws: the catch block
\* answers.
SearchFail(e) ==
  /\ ProcessRuns /\ ~Hung
  /\ exec[e].pc = "search"
  /\ \E query \in Queries :
       exec' = [exec EXCEPT ![e] = [pc |-> "returned", result |-> fallbackSearch(disk, query)]]
  /\ UNCHANGED <<vectorStore, startup, storeVars>>

\* The process ends (743-757): the handlers close the store if it exists.
\* The calls in flight end with the process; the table stays on disk.
ProcessExit ==
  /\ ProcessRuns
  /\ vectorStore' = IF vectorStore = "open" THEN "closed" ELSE "exited"
  /\ exec' = [e \in Calls |-> IdleCall]
  /\ startup' = NoStartup
  /\ tasks' = IdleTasks
  /\ scan' = NoScan
  /\ UNCHANGED <<disk, db, call>>

ToolIdle ==
  /\ vectorStore = "null"
  /\ exec = [e \in Calls |-> IdleCall]
  /\ startup = NoStartup

VARIABLES
  changes,  \* how often the directory has changed under the running process
  search    \* a searchSimilar call on its own: its inputs and what it returned

NoSearch ==
  [st |-> "none", queryEmbedding |-> <<>>, topK |-> 0, results |-> <<>>, payload |-> NoResult]

\* The state before the first call: an empty directory and an empty table.
StoreInit ==
  /\ disk = [exists |-> TRUE, files |-> [f \in Paths |-> NoFile]]
  /\ db = {}
  /\ tasks = IdleTasks
  /\ call = NoCall
  /\ scan = NoScan
  /\ ToolIdle
  /\ changes = 0
  /\ search = NoSearch

(***************************************************************************)
(* The chunker on its own: chunkText applied to texts built from runs.     *)
(***************************************************************************)
VARIABLES
  text,     \* the input of chunkText or getFileHash on its own
  chunked,  \* what chunkText did with it
  hashed,   \* what getFileHash returned for it
  queries   \* per retrieval call answered by the catch block, its query

chunkVars == <<text, chunked, hashed, queries>>

vars == <<disk, db, tasks, call, scan, vectorStore, exec, startup, changes, search, text, chunked, hashed, queries>>

\* The longest text is MaxRuns runs.
MaxRuns == 3

\* The runs a text is built from: a word too short to be a paragraph, a
\* short paragraph, a paragraph longer than chunkSize, a paragraph break, a
\* single line feed, and a run of blanks.
Runs ==
  { Rep(120, 5), Rep(120, 25), Rep(120, 700),
    Rep(NL, 2), Rep(NL, 1), Rep(32, 45) }

RECURSIVE TextsOf(_)
TextsOf(n) ==
  IF n = 0 THEN {<<>>}
  ELSE LET shorter == TextsOf(n - 1)
       IN  shorter \cup {t \o r : t \in shorter, r \in Runs}

NotChunked == [returns |-> FALSE, st |-> "pending", chunks |-> <<>>]

NotHashed == [returns |-> FALSE, hex |-> <<>>]

NoQueries == [e \in Calls |-> <<>>]

\* A text above maxTextLength, which chunkText cuts to truncatedLength.
HugeText == Rep(120, maxTextLength + 1)

ChunkInit ==
  /\ StoreInit
  /\ text \in TextsOf(MaxRuns) \cup {HugeText}
  /\ chunked = NotChunked
  /\ hashed = NotHashed
  /\ queries = NoQueries

ChunkCall ==
  /\ chunked.st = "pending"
  /\ chunked' = chunkText(text)
  /\ UNCHANGED <<text, hashed, queries>>
  /\ UNCHANGED <<storeVars, toolVars, changes, search>>

ChunkNext == ChunkCall

SpecChunk == ChunkInit /\ [][ChunkNext]_vars

\* Every loop either ends or repeats its state within MaxIterations.
LoopsSettled == chunked.st # "fuel"

\* C4: for every input text, chunkText returns at most 500 chunks.
ChunkCountCap == chunked.returns => Len(chunked.chunks) <= maxChunks

\* C5: every chunk that chunkText returns has a length between 10 and 2000
\* inclusive.
ChunkLengthBounds ==
  chunked.returns =>
    \A i \in 1..Len(chunked.chunks) :
      /\ Len(chunked.chunks[i]) >= minChunkLength
      /\ Len(chunked.chunks[i]) <= maxChunkLength

\* C5 witness: chunkText has returned chunks of both kinds, a whole paragraph
\* and windows of a paragraph longer than chunkSize.
ChunkLengthBoundsWitness ==
  /\ chunked.returns
  /\ \E i, j \in 1..Len(chunked.chunks) :
       /\ Len(chunked.chunks[i]) = 25
       /\ Len(chunked.chunks[j]) = chunkSize
  /\ \E i \in 1..Len(chunked.chunks) : Len(chunked.chunks[i]) = overlap

\* C6: for every non-empty input text chunkText returns a list with at least
\* one non-empty chunk.
AtLeastOneChunk ==
  (chunked.st # "pending" /\ text # <<>>) =>
    /\ chunked.returns
    /\ \E i \in 1..Len(chunked.chunks) : Len(chunked.chunks[i]) > 0

\* C20: for every input text chunkText terminates and returns: no window
\* loop comes back to a state it was in (same start, same chunks), from
\* which it would run forever.
ChunkerTerminates == chunked.st # "pending" => (chunked.returns /\ chunked.st # "diverge")

\* The windows [k*550, min(k*550 + 600, L)) of t from the k-th on, up to
\* the first that reaches L = Len(t).
RECURSIVE windowsFrom(_, _)
windowsFrom(t, k) ==
  IF k * (chunkSize - overlap) + chunkSize >= Len(t)
  THEN <<slice(t, k * (chunkSize - overlap), Len(t))>>
  ELSE <<slice(t, k * (chunkSize - overlap), k * (chunkSize - overlap) + chunkSize)>>
         \o windowsFrom(t, k + 1)

\* The chunks of those windows: each trimmed, kept if of 11 to 2000
\* characters.
RECURSIVE keptOf(_)
keptOf(windows) ==
  IF windows = <<>> THEN <<>>
  ELSE (IF keepChunk(trim(Head(windows))) THEN <<trim(Head(windows))>> ELSE <<>>)
         \o keptOf(Tail(windows))

\* The chunks of the paragraphs from the i-th on, a paragraph longer than
\* chunkSize by its windows.
RECURSIVE chunksOfParagraphs(_, _)
chunksOfParagraphs(paragraphs, i) ==
  IF i > Len(paragraphs) THEN <<>>
  ELSE (IF Len(paragraphs[i]) <= chunkSize THEN <<trim(paragraphs[i])>>
        ELSE keptOf(windowsFrom(paragraphs[i], 0)))
         \o chunksOfParagraphs(paragraphs, i + 1)

\* C21: a text without paragraphs, and every paragraph longer than 600
\* characters, is cut into the windows [k*550, min(k*550 + 600, L)), each
\* emitted once, and the paragraphs after a windowed paragraph are chunked
\* as well.
WindowedSlicing ==
  (chunked.returns /\ text # <<>> /\ Len(text) <= maxTextLength) =>
    chunked.chunks = IF paragraphsOf(text) = <<>> THEN keptOf(windowsFrom(text, 0))
                     ELSE chunksOfParagraphs(paragraphsOf(text), 1)

(***************************************************************************)
(* getFileHash on its own: the hash of texts built from runs, of the two   *)
(* document contents, and of the content of the documented example.        *)
(***************************************************************************)
\* "Hello World", the content of the example of lines 87-91.
HelloWorld == <<72, 101, 108, 108, 111, 32, 87, 111, 114, 108, 100>>

HashInit ==
  /\ StoreInit
  /\ text \in TextsOf(MaxRuns) \cup {HelloWorld, ContentA, ContentB}
  /\ chunked = NotChunked
  /\ hashed = NotHashed
  /\ queries = NoQueries

HashCall ==
  /\ ~hashed.returns
  /\ hashed' = [returns |-> TRUE, hex |-> getFileHash(text)]
  /\ UNCHANGED <<text, chunked, queries>>
  /\ UNCHANGED <<storeVars, toolVars, changes, search>>

HashNext == HashCall

SpecHash == HashInit /\ [][HashNext]_vars

\* h * 31 + c modulo 2^32, h and the result as <<high, low>> halves of 16
\* bits each.
rolling(h, c) ==
  <<(31 * h[1] + (31 * h[2] + c) \div 65536) % 65536, (31 * h[2] + c) % 65536>>

RECURSIVE rollingHash(_, _, _, _)
rollingHash(t, lo, hi, h) ==
  IF lo > hi THEN h
  ELSE IF lo = hi THEN rolling(h, t[lo])
  ELSE The({ rollingHash(t, (lo + hi) \div 2 + 1, hi, m) :
             m \in {rollingHash(t, lo, (lo + hi) \div 2, h)} })

\* The absolute value of the signed 32-bit integer with halves h.
absoluteValue(h) ==
  IF h[1] < 32768 THEN h
  ELSE IF h[2] = 0 THEN <<(65536 - h[1]) % 65536, 0>>
  ELSE <<65535 - h[1], 65536 - h[2]>>

\* The hexadecimal form of the natural number with halves h.
hexadecimal(h) ==
  IF h[1] = 0 THEN toHex(h[2])
  ELSE toHex(h[1]) \o Rep(48, 4 - Len(toHex(h[2]))) \o toHex(h[2])

\* "4a17b156" and "3369657c".
Hex4a17b156 == <<52, 97, 49, 55, 98, 49, 53, 54>>
Hex3369657c == <<51, 51, 54, 57, 54, 53, 55, 99>>

Init ==
  /\ StoreInit
  /\ text = <<>>
  /\ chunked = NotChunked
  /\ hashed = NotHashed
  /\ queries = NoQueries

IndexStep ==
  /\ ~Hung
  /\ \E f \in Paths : EmbedOk(f) \/ EmbedFail(f) \/ PauseOver(f)
  /\ scan' = NoScan

Next ==
  \/ \E f \in Paths, c \in Contents : IndexDocumentCall(f, c) /\ UNCHANGED <<toolVars, changes, search, chunkVars>>
  \/ RefreshIndexCall /\ UNCHANGED <<toolVars, changes, search, chunkVars>>
  \/ CheckForNewFilesCall /\ UNCHANGED <<toolVars, changes, search, chunkVars>>
  \/ IndexStep /\ UNCHANGED <<toolVars, changes, search, chunkVars>>
  \/ KillProcess /\ UNCHANGED <<toolVars, changes, search, chunkVars>>
  \/ DiskChange /\ scan' = NoScan /\ UNCHANGED <<db, tasks, call>> /\ UNCHANGED <<toolVars, changes, search, chunkVars>>

Spec == Init /\ [][Next]_vars

(***************************************************************************)
(* One run of the agent process: retrieval calls that overlap, on a        *)
(* directory and a database file left by earlier runs.                     *)
(***************************************************************************)
\* The directory changes at most MaxChanges times during the run.
MaxChanges == 1

\* The rows that indexing content under filePath stores for the chunks
\* with the indexes in stored.
indexOf(filePath, content, stored) ==
  {newRow(filePath, i, chunkText(content).chunks[i + 1], <<5, 0>>, getFileHash(content)) :
     i \in stored}

\* The tables earlier runs can leave: docs/a.md not indexed or indexed with
\* ContentA, docs/b.md not indexed or indexed with ContentTwo, all of it or
\* the second chunk only.
ToolTables ==
  {ra \cup rb : ra \in {{}, indexOf("docs/a.md", ContentA, {0})},
                rb \in {{}, indexOf("docs/b.md", ContentTwo, {0, 1}),
                        indexOf("docs/b.md", ContentTwo, {1})}}

ToolDisks ==
  { [exists |-> TRUE, files |-> [f \in Paths |-> IF f = "docs/a.md" THEN ca ELSE cb]] :
      ca \in {NoFile, ContentA, ContentB, ContentInstall, ContentHang, ContentRust},
      cb \in {NoFile, ContentTwo, ContentEmpty} }
  \cup { [exists |-> FALSE, files |-> [f \in Paths |-> NoFile]] }

ToolInit ==
  /\ disk \in ToolDisks
  /\ db \in ToolTables
  /\ tasks = IdleTasks
  /\ call = NoCall
  /\ scan = NoScan
  /\ ToolIdle
  /\ changes = 0
  /\ text = <<>>
  /\ chunked = NotChunked
  /\ hashed = NotHashed
  /\ queries = NoQueries
  /\ search = NoSearch

\* A file is removed or rewritten, or the directory is removed.
ToolDiskChange ==
  /\ ProcessRuns
  /\ changes < MaxChanges
  /\ changes' = changes + 1
  /\ \/ \E f \in Paths : RemoveFile(f)
     \/ \E f \in Paths : WriteFile(f, ContentTwo)
     \/ RemoveDocsDir
  /\ UNCHANGED <<db, tasks, call, scan, toolVars>>

\* What a call in flight waits for and the runtime delivers.
CallStep(e) == SearchOk(e) \/ SearchFail(e)

ToolNext ==
  \/ \E e \in Calls : ExecuteCallWithStore(e) /\ UNCHANGED <<changes, chunkVars, search>>
  \/ \E e \in Calls : ExecuteCallFirst(e) /\ UNCHANGED <<changes, chunkVars, search>>
  \/ \E e \in Calls, q \in Queries : ExecuteCallNoStore(e, q) /\ UNCHANGED <<changes, chunkVars, search>>
  \/ StartupStep /\ UNCHANGED <<changes, chunkVars, search>>
  \/ \E e \in Calls : CallStep(e) /\ UNCHANGED <<changes, chunkVars, search>>
  \/ ProcessExit /\ UNCHANGED <<changes, chunkVars, search>>
  \/ ToolDiskChange /\ UNCHANGED <<chunkVars, search>>

\* The startup refresh has a step to take.
StartupEnabled == ProcessRuns /\ ~Hung /\ startup.status = "running"

\* The event loop delivers every answer and timer that a call or the
\* startup refresh waits for: weak fairness of the steps of each call and,
\* written out, of the steps of the startup refresh.
ToolFairness ==
  /\ \A e \in Calls : WF_vars(CallStep(e) /\ UNCHANGED <<changes, chunkVars, search>>)
  /\ \/ []<>(~StartupEnabled)
     \/ []<><<StartupStep /\ UNCHANGED <<changes, chunkVars, search>>>>_vars

SpecTool == ToolInit /\ [][ToolNext]_vars /\ ToolFairness

(***************************************************************************)
(* The catch block on its own: retrieval calls with different queries in   *)
(* a process whose store cannot be constructed.                            *)
(***************************************************************************)
FallbackCall(e) ==
  \E q \in Queries :
    /\ ExecuteCallNoStore(e, q)
    /\ queries' = [queries EXCEPT ![e] = q]
    /\ UNCHANGED <<changes, text, chunked, hashed, search>>

FallbackNext ==
  \/ \E e \in Calls : FallbackCall(e)
  \/ ToolDiskChange /\ UNCHANGED <<chunkVars, search>>

SpecFallback == ToolInit /\ [][FallbackNext]_vars

(***************************************************************************)
(* The agent started with --refresh-index (agent.ts 15-24, 87-90): one     *)
(* refreshIndex on a directory in which reading a file may fail, then the  *)
(* end of the process.                                                     *)
(***************************************************************************)
RebuildInit ==
  /\ disk \in ToolDisks
  /\ db \in ToolTables
  /\ tasks = IdleTasks
  /\ call = NoCall
  /\ scan = NoScan
  /\ ToolIdle
  /\ changes = 0
  /\ text = <<>>
  /\ chunked = NotChunked
  /\ hashed = NotHashed
  /\ queries = NoQueries
  /\ search = NoSearch

\* A callback of refreshIndex was rejected: readFileSync threw.
ReadFailed == \E f \in Paths : tasks[f].pc = "threw"

\* await tempStore.refreshIndex() (agent.ts 19) up to its first await:
\* Promise.all (540) is rejected as soon as one callback is, so the call
\* has thrown when readFileSync threw for a file.
RebuildCall ==
  /\ call = NoCall
  /\ IF directoryMissing(disk)
     THEN /\ call' = [op |-> "refreshIndex", path |-> "", threw |-> TRUE]
          /\ UNCHANGED <<db, tasks>>
     ELSE \E unreadable \in SUBSET {f \in Paths : existsSync(disk, f)} :
          \E r \in {refreshStart(disk, deleteAll(db), markdownFiles(disk), IdleTasks,
                                  unreadable)} :
              /\ call' = [op |-> "refreshIndex", path |-> "", threw |-> unreadable # {}]
              /\ db' = r.rows
              /\ tasks' = r.tasks
  /\ UNCHANGED <<disk, scan>>

\* The indexDocument calls of the rebuild go on while the process lives.
RebuildStep ==
  /\ call.op = "refreshIndex"
  /\ ~Hung
  /\ \E f \in Paths : EmbedOk(f) \/ EmbedFail(f) \/ PauseOver(f)
  /\ UNCHANGED scan

\* Every callback has settled.
RebuildSettled == \A f \in Paths : tasks[f].pc \in {"idle", "done", "threw"}

\* The process ends: main returns after close() (agent.ts 20-23) when
\* refreshIndex has completed, process.exit(1) runs when it has thrown
\* (agent.ts 87-90), or the process is killed while chunkText hangs.
RebuildExit ==
  /\ call.op = "refreshIndex"
  /\ call.threw \/ RebuildSettled \/ Hung
  /\ call' = [call EXCEPT !.op = "exited"]
  /\ UNCHANGED <<disk, db, tasks, scan>>

RebuildNext ==
  \/ RebuildCall /\ UNCHANGED <<toolVars, changes, search, chunkVars>>
  \/ RebuildStep /\ UNCHANGED <<toolVars, changes, search, chunkVars>>
  \/ RebuildExit /\ UNCHANGED <<toolVars, changes, search, chunkVars>>

SpecRebuild == RebuildInit /\ [][RebuildNext]_vars

(***************************************************************************)
(* searchSimilar on its own: a table, a query embedding and a topK.        *)
(***************************************************************************)
\* The largest topK.
MaxTopK == 3

\* Embeddings of stored chunks: against the query <<5, 0>> they score 1,
\* 3/5, 21/221 (below 0.1), -1 and, for the zero vector, 0.
DocEmbeddings == {<<5, 0>>, <<3, 4>>, <<21, 220>>, <<-5, 0>>, <<0, 0>>}

\* Embeddings of the query; <<15, -8>> scores 15/17 against <<5, 0>> and
\* 13/85 (between 0.1 and 0.2) against <<3, 4>>; <<0, 5>> is orthogonal to
\* <<5, 0>>; <<5>> has another length than the stored; <<NaN, 0>> is what
\* a model that answers with a NaN gives.
SearchEmbeddings == {<<5, 0>>, <<4, 3>>, <<15, -8>>, <<0, 5>>, <<5>>, <<NaN, 0>>}

\* The tables: any of the chunks of docs/a.md and docs/b.md, both indexed
\* with ContentTwo, each chunk with any embedding.
SearchTables ==
  LET fileHash   == getFileHash(ContentTwo)
      chunks     == chunkText(ContentTwo).chunks
      rowsFor(filePath, i) ==
        {{}} \cup {{newRow(filePath, i, chunks[i + 1], e, fileHash)} : e \in DocEmbeddings}
  IN  {r1 \cup r2 \cup r3 \cup r4 :
         r1 \in rowsFor("docs/a.md", 0), r2 \in rowsFor("docs/a.md", 1),
         r3 \in rowsFor("docs/b.md", 0), r4 \in rowsFor("docs/b.md", 1)}

SearchInit ==
  /\ disk = [exists |-> TRUE, files |-> [f \in Paths |-> NoFile]]
  /\ db \in SearchTables
  /\ tasks = IdleTasks
  /\ call = NoCall
  /\ scan = NoScan
  /\ ToolIdle
  /\ changes = 0
  /\ text = <<>>
  /\ chunked = NotChunked
  /\ hashed = NotHashed
  /\ queries = NoQueries
  /\ \E q \in SearchEmbeddings, k \in 0..MaxTopK :
       search = [NoSearch EXCEPT !.st = "called", !.queryEmbedding = q, !.topK = k]

\* getEmbedding answers and searchSimilar returns its list.
SearchReturns ==
  /\ search.st = "called"
  /\ \E documents \in rowOrders(db) :
       search' = [search EXCEPT !.st = "returned",
                    !.results = searchSimilar(documents, search.queryEmbedding, search.topK)]

\* getEmbedding throws (223-225) and searchSimilar with it.
SearchThrows ==
  /\ search.st = "called"
  /\ search' = [search EXCEPT !.st = "threw"]

\* Lines 686-706 of execute on the list that searchSimilar(query, 3)
\* returned.
SearchAssembled ==
  /\ search.st = "returned"
  /\ search.topK = 3
  /\ search' = [search EXCEPT !.st = "assembled", !.payload = assemble(search.results)]

SearchNext ==
  \/ SearchReturns /\ UNCHANGED <<storeVars, toolVars, changes, chunkVars>>
  \/ SearchAssembled /\ UNCHANGED <<storeVars, toolVars, changes, chunkVars>>
  \/ SearchThrows /\ UNCHANGED <<storeVars, toolVars, changes, chunkVars>>

SpecSearch == SearchInit /\ [][SearchNext]_vars

(***************************************************************************)
(* Properties of the store                                                 *)
(***************************************************************************)
InSeq(seq, x) == \E i \in 1..Len(seq) : seq[i] = x

\* The call that a step starts or moves on.
Stepped(f) == tasks'[f] # tasks[f]

\* C1 as stated: a second indexDocument(p, c) after the first has completed
\* leaves the stored chunks as they were and issues no embedding request.
Idempotence ==
  [][\A f \in Paths :
       (tasks'[f].repeat /\ Stepped(f)) => (db' = db /\ tasks'[f].requests = 0)]_vars

\* C1 amended: when the first indexDocument(p, c) stored at least one chunk,
\* the second call returns at once, leaves the table as it was and issues no
\* embedding request.
IdempotenceWhenStored ==
  [][\A f \in Paths :
       (tasks'[f].repeat /\ tasks'[f].firstStored > 0 /\ Stepped(f)) =>
         (db' = db /\ tasks'[f].requests = 0 /\ tasks'[f].pc = "done")]_vars

\* C1 witness: a second call for a (path, content) whose first call stored
\* chunks has returned as 'already indexed'.
IdempotenceWitness ==
  \E f \in Paths :
    /\ tasks[f].repeat /\ tasks[f].firstStored > 1
    /\ tasks[f].pc = "done" /\ tasks[f].skipped
    /\ Cardinality(rowsOf(db, f)) = tasks[f].firstStored

ReindexedOnChange(f) ==
  /\ tasks[f].pc = "done"
  /\ tasks[f].oldHashes # {}
  /\ tasks[f].fileHash \notin tasks[f].oldHashes

\* C3 as stated: after indexDocument(p, c2) on a path indexed under another
\* hash H1, no chunk of p with H1 remains and chunks of p with H2 exist.
ReplacementOnChange ==
  \A f \in Paths :
    ReindexedOnChange(f) =>
      /\ \A r \in rowsOf(db, f) : r.file_hash \notin tasks[f].oldHashes
      /\ \E r \in rowsOf(db, f) : r.file_hash = tasks[f].fileHash

\* C3 amended: no chunk of p with H1 remains, and the chunks of p are
\* exactly the chunks of c2 whose embedding and insert succeeded, each under
\* H2 (none when c2 yields no chunk or every embedding request failed).
ReplacementOfStored ==
  \A f \in Paths :
    ReindexedOnChange(f) =>
      /\ \A r \in rowsOf(db, f) :
           /\ r.file_hash \notin tasks[f].oldHashes
           /\ r.file_hash = tasks[f].fileHash
           /\ r.text = tasks[f].chunks[r.chunk_index + 1]
      /\ {r.chunk_index : r \in rowsOf(db, f)} = tasks[f].stored

\* C3 witness: a changed document has been indexed again and chunks of the
\* new hash are stored.
ReplacementWitness ==
  \E f \in Paths : ReindexedOnChange(f) /\ tasks[f].stored # {}

\* The rows of filePath hold a chunk of content c, stored under c's hash.
IndexedWith(filePath, c) ==
  \E r \in rowsOf(db, filePath) :
    /\ r.file_hash = getFileHash(c)
    /\ r.chunk_index < Len(chunkText(c).chunks)
    /\ r.text = chunkText(c).chunks[r.chunk_index + 1]

\* C10 as stated: a file indexed with content c whose content on disk is any
\* other c' is in changedFiles of the next scan; a file on disk with no chunk
\* in the index is in newFiles.
ChangeDetection ==
  scan.status = "returned" =>
    \A f \in Paths :
      /\ \A c \in Contents :
           (IndexedWith(f, c) /\ existsSync(disk, f) /\ disk.files[f] # c)
             => InSeq(scan.changedFiles, f)
      /\ (existsSync(disk, f) /\ rowsOf(db, f) = {}) => InSeq(scan.newFiles, f)

\* C10 amended: a file with stored chunks is in changedFiles of a scan
\* exactly when the getFileHash of its content on disk differs from the
\* stored file_hash; a file on disk with no chunk in the index is in newFiles.
ChangeDetectionByHash ==
  scan.status = "returned" =>
    \A f \in Paths :
      /\ (existsSync(disk, f) /\ rowsOf(db, f) # {}) =>
           (InSeq(scan.changedFiles, f) <=>
              \E r \in rowsOf(db, f) : r.file_hash # getFileHash(disk.files[f]))
      /\ (existsSync(disk, f) /\ rowsOf(db, f) = {}) => InSeq(scan.newFiles, f)

\* C10 witness: a scan has reported one file as changed and one as new.
ChangeDetectionWitness ==
  /\ scan.status = "returned"
  /\ Len(scan.changedFiles) = 1
  /\ Len(scan.newFiles) = 1

\* The indexDocument call for f has passed the skip test of line 290 and
\* chunkText has returned.
Indexing(f) == tasks[f].pc \in {"embed", "pause", "done"} /\ ~tasks[f].skipped

\* C11: in an indexDocument call, a chunk whose embedding request or insert
\* failed is not stored, every other chunk that the call has handled is
\* stored under id <path>_chunk_<j> with chunk_index j, its text and the
\* hash of the content, and the call ends only after its last chunk, without
\* throwing.
FailureContainment ==
  \A f \in Paths :
    Indexing(f) =>
      /\ tasks[f].pc = "done" => tasks[f].i = Len(tasks[f].chunks)
      /\ call.op = "indexDocument" => ~call.threw
      /\ \A j \in 0..(Len(tasks[f].chunks) - 1) :
           IF j \in tasks[f].stored
           THEN /\ j < tasks[f].i
                /\ \E embedding \in Embeddings :
                     newRow(f, j, tasks[f].chunks[j + 1], embedding, tasks[f].fileHash) \in db
           ELSE ~\E r \in db : r.id = chunkId(f, j)

\* C11 witness: an indexDocument call has completed in which the embedding
\* of the first chunk failed and the second chunk is stored.
FailureContainmentWitness ==
  \E f \in Paths :
    /\ Indexing(f) /\ tasks[f].pc = "done" /\ call.op = "indexDocument"
    /\ tasks[f].stored = {1}
    /\ tasks[f].requests = 2

\* The hash and the chunks of every content, computed once.
hashOfContent == [c \in Contents |-> getFileHash(c)]

chunksOfContent == [c \in Contents |-> chunkText(c)]

\* The chunks of c for which f has no row.
missingChunks(f, c) ==
  {i \in 0..(Len(chunksOfContent[c].chunks) - 1) : ~\E r \in db : r.id = chunkId(f, i)}

\* The index of f is partial for content c: no indexDocument call for f is
\* in flight, f has rows, all under the hash of c, and not one for every
\* chunk of c.
PartialIndex(f, c) ==
  /\ tasks[f].pc \in {"idle", "done"}
  /\ rowsOf(db, f) # {}
  /\ \A r \in rowsOf(db, f) : r.file_hash = hashOfContent[c]
  /\ chunksOfContent[c].returns
  /\ missingChunks(f, c) # {}

\* C24: while the index of p is partial for content c, indexDocument(p, c)
\* returns at once without a request and leaves the table as it is, a scan
\* of a directory that holds c under p reports p neither as new nor as
\* changed, and no step stores a missing chunk of c under p.
PartialIndexStays ==
  [][\A f \in Paths, c \in Contents :
       PartialIndex(f, c) =>
         /\ IndexDocumentCall(f, c) =>
              (db' = db /\ tasks'[f].requests = 0 /\ tasks'[f].pc = "done")
         /\ (CheckForNewFilesCall /\ existsSync(disk, f) /\ disk.files[f] = c) =>
              (~InSeq(scan'.newFiles, f) /\ ~InSeq(scan'.changedFiles, f))
         /\ \A i \in missingChunks(f, c) :
              ~\E r \in db' : r.id = chunkId(f, i) /\ r.file_hash = hashOfContent[c]]_vars

\* C24 witness: the first indexDocument call for a file of two chunks stored
\* one of them, a second call with the same content has returned as 'already
\* indexed', and a scan of the directory that holds the content has reported
\* the file neither as new nor as changed.
PartialIndexStaysWitness ==
  \E f \in Paths :
    /\ PartialIndex(f, tasks[f].content)
    /\ tasks[f].repeat /\ tasks[f].firstStored = 1 /\ tasks[f].skipped
    /\ Cardinality(rowsOf(db, f)) = 1
    /\ existsSync(disk, f) /\ disk.files[f] = tasks[f].content
    /\ scan.status = "returned"
    /\ ~InSeq(scan.newFiles, f) /\ ~InSeq(scan.changedFiles, f)

\* The indexDocument call for f found the path indexed under other hashes
\* and has passed the DELETE of line 296.
Reindexing(f) ==
  /\ tasks[f].pc \in {"embed", "pause", "done", "hung"}
  /\ ~tasks[f].skipped
  /\ tasks[f].oldHashes # {}

\* C25: from the first embedding request of an indexDocument call for a
\* path indexed under a different hash, the path holds no chunk but those
\* the call has stored; a call in which every embedding failed, or whose
\* content has no chunk, ends with no chunk for the path.
OldChunksRemovedFirst ==
  \A f \in Paths :
    Reindexing(f) =>
      /\ tasks[f].fileHash \notin tasks[f].oldHashes
      /\ \A r \in rowsOf(db, f) :
           r.file_hash = tasks[f].fileHash /\ r.chunk_index \in tasks[f].stored
      /\ tasks[f].requests = 0 => rowsOf(db, f) = {}
      /\ (tasks[f].pc = "done" /\ tasks[f].stored = {}) => rowsOf(db, f) = {}

\* C25 witness: an indexDocument call for a path indexed under another hash
\* has ended after two embedding requests that both failed, and the path
\* holds no chunk.
OldChunksRemovedFirstWitness ==
  \E f \in Paths :
    /\ Reindexing(f) /\ tasks[f].pc = "done" /\ call.op = "indexDocument"
    /\ tasks[f].requests = 2 /\ tasks[f].stored = {}
    /\ rowsOf(db, f) = {}

RefreshDone == call.op = "refreshIndex" /\ ~call.threw /\ CallComplete

\* No embedding request and no insert of the calls in tasks has failed.
NoEmbeddingFailure ==
  \A f \in Paths : tasks[f].stored = {j \in 0..Len(tasks[f].chunks) : j < tasks[f].i}

\* The directory is as refreshIndex read it (525, 535).
DiskAsRead ==
  /\ disk.exists
  /\ \A f \in Paths :
       disk.files[f] = IF tasks[f].pc = "idle" THEN NoFile ELSE tasks[f].content

\* refreshIndex is called on an existing directory.
RefreshStarts == CallComplete /\ disk.exists /\ call'.op = "refreshIndex" /\ scan' = NoScan
                   /\ (db' # db \/ tasks' # tasks \/ call' # call)

\* C14: when refreshIndex has completed without an embedding failure, every
\* row belongs to a markdown file of the directory and every markdown file
\* that yields chunks has all its chunks stored under the hash of its
\* content; and the call passes every markdown file to the chunker and the
\* embedder whether or not its (path, hash) was in the table before.
FullRebuild ==
  /\ [](RefreshDone /\ NoEmbeddingFailure /\ DiskAsRead =>
         /\ \A r \in db : existsSync(disk, r.file_path)
         /\ \A f \in Paths :
              existsSync(disk, f) =>
                /\ {r.chunk_index : r \in rowsOf(db, f)}
                     = {j \in 0..Len(chunkText(disk.files[f]).chunks) :
                          j < Len(chunkText(disk.files[f]).chunks)}
                /\ \A r \in rowsOf(db, f) :
                     /\ r.file_hash = getFileHash(disk.files[f])
                     /\ r.text = chunkText(disk.files[f]).chunks[r.chunk_index + 1]
                /\ tasks[f].requests = Len(chunkText(disk.files[f]).chunks)
                /\ ~tasks[f].skipped)
  /\ [][RefreshStarts =>
         \A f \in Paths :
           existsSync(disk, f) =>
             /\ ~tasks'[f].skipped
             /\ rowsOf(db', f) = {}
             /\ tasks'[f].chunks = chunkText(disk.files[f]).chunks
             /\ tasks'[f].pc = IF tasks'[f].chunks = <<>> THEN "done" ELSE "embed"]_vars

\* C14 witness: refreshIndex has completed on a directory of two files, one
\* of one chunk and one of two, and the table holds the three chunks.
FullRebuildWitness ==
  /\ RefreshDone /\ NoEmbeddingFailure /\ DiskAsRead
  /\ \E f, g \in Paths :
       /\ Cardinality(rowsOf(db, f)) = 1
       /\ Cardinality(rowsOf(db, g)) = 2
       /\ tasks[f].requests = 1 /\ tasks[g].requests = 2

\* C19: a refreshIndex call on a missing directory throws and leaves the
\* table exactly as it was.
RefreshMissingDirectory ==
  [][(CallComplete /\ ~disk.exists /\ call'.op = "refreshIndex" /\ call' # call) =>
       (call'.threw /\ db' = db)]_vars

\* C19 witness: refreshIndex has thrown on a missing directory and the
\* rows of both files, indexed before the directory was removed, are there.
RefreshMissingDirectoryWitness ==
  /\ call.op = "refreshIndex" /\ call.threw
  /\ ~disk.exists
  /\ \A f \in Paths : rowsOf(db, f) # {}

(***************************************************************************)
(* Properties of searchSimilar                                             *)
(***************************************************************************)
\* The stored chunk is in the list that searchSimilar returned.
isReturned(row) ==
  \E i \in 1..Len(search.results) :
    /\ search.results[i].file_path = row.file_path
    /\ search.results[i].chunk_index = row.chunk_index

\* s <= t for two scores.
scoreAtMost(s, t) == s.num * t.den <= t.num * s.den

\* C7: the list searchSimilar returns is sorted by non-increasing score, has
\* at most topK entries, each with a score above 0.1, and every omitted
\* chunk scores at most 0.1 or no higher than any returned entry.
Ranking ==
  search.st = "returned" =>
    LET results == search.results
    IN  /\ \A i \in 1..(Len(results) - 1) : scoreAtMost(results[i + 1].score, results[i].score)
        /\ Len(results) <= search.topK
        /\ \A i \in 1..Len(results) : 10 * results[i].score.num > results[i].score.den
        /\ \A row \in db :
             ~isReturned(row) =>
               LET score == cosineSimilarity(search.queryEmbedding, row.embedding)
               IN  \/ 10 * score.num <= score.den
                   \/ \A i \in 1..Len(results) : scoreAtMost(score, results[i].score)

\* C7 witness: with topK = 2 searchSimilar has returned two entries of
\* different scores and left out one chunk that scores above 0.1 and one
\* that scores at most 0.1.
RankingWitness ==
  /\ search.st = "returned"
  /\ search.topK = 2
  /\ Len(search.results) = 2
  /\ ~scoreAtMost(search.results[1].score, search.results[2].score)
  /\ \E r1, r2 \in db :
       /\ ~isReturned(r1) /\ ~isReturned(r2)
       /\ scoreAbove(cosineSimilarity(search.queryEmbedding, r1.embedding), 1, 10)
       /\ ~scoreAbove(cosineSimilarity(search.queryEmbedding, r2.embedding), 1, 10)

\* The indexes of the results that pass the threshold of execute, 0.2.
aboveThreshold == {i \in 1..Len(search.results) : 5 * search.results[i].score.num > search.results[i].score.den}

\* The index in search.results of the k-th result above the threshold.
kthAbove(k) ==
  CHOOSE i \in aboveThreshold : Cardinality({j \in aboveThreshold : j <= i}) = k

\* C12: for a non-empty list of searchSimilar the payload of execute holds
\* exactly the results scoring above 0.2, in the order of the list, numbered
\* from 1; when none passes or the list is empty the payload is one of the
\* two 'no relevant information' messages; the payload is never empty.
ResultAssembly ==
  search.st = "assembled" =>
    /\ search.results = <<>> => search.payload.kind = "noneFound"
    /\ (search.results # <<>> /\ aboveThreshold = {}) => search.payload.kind = "notEnough"
    /\ aboveThreshold # {} =>
         /\ search.payload.kind = "combined"
         /\ Len(search.payload.entries) = Cardinality(aboveThreshold)
         /\ \A k \in 1..Len(search.payload.entries) :
              /\ search.payload.entries[k].n = k
              /\ search.payload.entries[k].text = search.results[kthAbove(k)].text
              /\ includes(search.payload.text,
                          <<91>> \o decimal(k) \o <<93, 32, 40>>
                            \o decimal(search.payload.entries[k].percent) \o <<37>>)
              /\ includes(search.payload.text, search.results[kthAbove(k)].text)
    /\ search.payload.kind \in {"noneFound", "notEnough"} \/ search.payload.text # <<>>

\* C12 witness: of three results two score above 0.2 and one between 0.1
\* and 0.2, and the payload holds the two as [1] and [2].
ResultAssemblyWitness ==
  /\ search.st = "assembled"
  /\ Len(search.results) = 3
  /\ aboveThreshold = {1, 2}
  /\ Len(search.payload.entries) = 2
  /\ search.payload.entries[2].percent = 88

\* Every entry of the vector is a finite number.
Finite(v) == \A i \in 1..Len(v) : v[i] # NaN

ZeroVector(v) == \A i \in 1..Len(v) : v[i] = 0

\* Two vectors of finite numbers, of one length, with dot product 0.
Orthogonal(a, b) ==
  /\ Finite(a) /\ Finite(b) /\ Len(a) = Len(b)
  /\ sumOfProducts(a, b, Len(a)) = 0

IsZero(score) == score.num = 0 /\ score.den # 0

IsOne(score) == score.num = score.den /\ score.den # 0

\* The four cases of C18 for the vectors a and b.
EdgeCases(a, b) ==
  /\ Len(a) # Len(b) => IsZero(cosineSimilarity(a, b))
  /\ (ZeroVector(a) \/ ZeroVector(b)) => IsZero(cosineSimilarity(a, b))
  /\ Orthogonal(a, b) => IsZero(cosineSimilarity(a, b))
  /\ (a = b /\ ~ZeroVector(a)) => IsOne(cosineSimilarity(a, b))

ExecuteReturns ==
  \A e \in Calls :
    (exec[e].pc \in {"store", "search"}) ~> (exec[e].pc \in {"returned", "idle"})

\* A step of the startup refresh, from the scan to its end.
InStartup ==
  \/ startup.status = "running"
  \/ startup.status = "none" /\ startup'.status = "running"

\* C9: during the startup refresh no row of a file whose indexed file_hash
\* equals the hash of its content on disk is deleted or inserted, no
\* embedding is requested for it and it is not passed to indexDocument;
\* only files of newFiles or changedFiles are passed to indexDocument.
IncrementalRefresh ==
  [][InStartup =>
       \A f \in Paths :
         /\ f \in (startup.upToDate \cup startup'.upToDate) =>
              /\ rowsOf(db', f) = rowsOf(db, f)
              /\ tasks'[f] = tasks[f]
              /\ tasks[f] = IdleTask
         /\ (tasks[f].pc = "idle" /\ tasks'[f].pc # "idle") =>
              InSeq(scan'.newFiles, f) \/ InSeq(scan'.changedFiles, f)]_vars

\* C9 witness: the startup refresh has ended with one file found up to date
\* and left alone and another file indexed with embedding requests.
IncrementalRefreshWitness ==
  /\ startup.status = "done"
  /\ \E f, g \in Paths :
       /\ f \in startup.upToDate
       /\ tasks[f] = IdleTask
       /\ rowsOf(db, f) # {}
       /\ tasks[g].pc = "done"
       /\ tasks[g].requests > 0
       /\ tasks[g].stored # {}

\* The call e has returned what the vector search gave it (no catch block).
AnsweredBySearch(e) ==
  exec[e].pc = "returned" /\ exec[e].result.kind \in {"noneFound", "notEnough", "combined"}

\* C13: while the documents directory exists and holds no markdown file, a
\* retrieval call whose search did not throw returns one of the 'no
\* relevant information' messages, whatever rows earlier runs left.
EmptyDirectory ==
  \A e \in Calls :
    (AnsweredBySearch(e) /\ changes = 0 /\ disk.exists /\ markdownFiles(disk) = <<>>) =>
      exec[e].result.kind \in {"noneFound", "notEnough"}

\* The call e reads the table in this step: the SELECT of searchSimilar
\* (371) runs and execute returns what the search gave.
ReadsIndex(e) ==
  /\ exec[e].pc = "search"
  /\ exec'[e].pc = "returned"
  /\ exec'[e].result.kind \in {"noneFound", "notEnough", "combined"}

\* C16: no retrieval call reads the index in searchSimilar before the
\* startup refresh that the first call started has run to completion.
SearchAfterRefresh ==
  [][\A e \in Calls : ReadsIndex(e) => startup.status = "done"]_vars

\* The call e comes back from getOrCreateVectorStore with the store.
GetsStore(e) == exec[e].pc # "search" /\ exec'[e].pc = "search"

\* C17: in one process at most one SQLiteVectorStore is constructed, by a
\* call that finds the handle null; every call that getOrCreateVectorStore
\* answers gets that instance; and when the process ends, on exit or on
\* SIGINT, the instance is closed if it was created.
SingletonStore ==
  /\ [](startup.constructed <= 1)
  /\ [](vectorStore = "open" <=> startup.constructed = 1)
  /\ [][/\ startup'.constructed > startup.constructed => vectorStore = "null"
        /\ \A e \in Calls :
             GetsStore(e) => vectorStore' = "open" /\ startup'.constructed = 1
        /\ (ProcessRuns /\ ~ProcessRuns') =>
             vectorStore' = IF startup.constructed = 1 THEN "closed" ELSE "exited"]_vars

\* C17 witness: both calls are in searchSimilar with the one store, after
\* a startup refresh that requested embeddings.
SingletonStoreWitness ==
  /\ \A e \in Calls : exec[e].pc = "search"
  /\ startup.status = "done"
  /\ startup.constructed = 1
  /\ \E f \in Paths : tasks[f].requests > 0

\* The call e has returned from the keyword scan of the catch block.
AnsweredByFallback(e) ==
  exec[e].pc = "returned" /\ exec[e].result.kind \in {"fallbackLines", "fallbackMessage"}

\* The line holds one of the five keywords, in any case of the letters.
HasKeyword(line) ==
  \E w \in {install, prerequisite, wasmPack, nodeJs, rust} : includes(toLowerCase(line), w)

\* C22: the fallback returns its generic message only when no line of any
\* markdown file holds one of the five keywords; otherwise it returns at
\* most 10 lines, each holding a keyword.
FallbackKeywordSearch ==
  \A e \in Calls :
    (AnsweredByFallback(e) /\ changes = 0) =>
      /\ exec[e].result.kind = "fallbackMessage" =>
           \A f \in Paths :
             existsSync(disk, f) =>
               \A i \in 1..Len(splitLines(disk.files[f])) :
                 ~HasKeyword(splitLines(disk.files[f])[i])
      /\ exec[e].result.kind = "fallbackLines" =>
           /\ Len(splitLines(exec[e].result.text)) <= 10
           /\ \A i \in 1..Len(splitLines(exec[e].result.text)) :
                HasKeyword(splitLines(exec[e].result.text)[i])

\* The result of the call e holds the text of the row r.
Returned(e, r) ==
  \E i \in 1..Len(exec'[e].result.entries) : exec'[e].result.entries[i].text = r.text

\* C26: no step of the process removes or alters a row of a file that is
\* not in the directory, the scan and the startup refresh leave the rows of
\* a file they found missing as they are, and a search whose query matches
\* every row returns the rows of missing files with the others.
StaleChunksKept ==
  [][\A f \in Paths :
       ~existsSync(disk, f) =>
         /\ rowsOf(db, f) \subseteq rowsOf(db', f)
         /\ tasks[f].pc = "idle" => (rowsOf(db', f) = rowsOf(db, f) /\ tasks'[f].pc = "idle")
         /\ \A e \in Calls :
              (ReadsIndex(e) /\ exec'[e].result.kind = "combined" /\ Cardinality(db) <= 3) =>
                \A r \in rowsOf(db, f) : Returned(e, r)]_vars

\* C26 witness: the process started on a directory without docs/a.md and a
\* table with a row of docs/a.md; the startup refresh has indexed another
\* file and ended, the row is still stored, and a call has returned its text.
StaleChunksKeptWitness ==
  /\ changes = 0
  /\ ~existsSync(disk, "docs/a.md")
  /\ startup.status = "done"
  /\ \E g \in Paths : tasks[g].pc = "done" /\ tasks[g].stored # {}
  /\ \E r \in rowsOf(db, "docs/a.md"), e \in Calls :
       /\ exec[e].pc = "returned"
       /\ exec[e].result.kind = "combined"
       /\ \E i \in 1..Len(exec[e].result.entries) : exec[e].result.entries[i].text = r.text

\* The startup refresh has ended, by its last file or by a failing read.
StartupOver == startup.status \in {"done", "failed"}

\* C27: in a running process the directory is scanned only in the step in
\* which the store is created, rows are deleted or inserted and
\* indexDocument runs only in the startup refresh which that step starts,
\* and once the refresh has ended no later call scans, indexes or starts
\* another refresh.
RefreshOnce ==
  [][ProcessRuns' =>
       /\ scan' # scan => (vectorStore = "null" /\ vectorStore' = "open")
       /\ (db' # db \/ tasks' # tasks) => InStartup
       /\ startup'.status = "running" /\ startup.status # "running" => vectorStore = "null"
       /\ StartupOver => (db' = db /\ tasks' = tasks /\ scan' = scan /\ startup' = startup)]_vars

\* C27 witness: after the startup refresh a file of the directory was
\* rewritten, and a call other than the one that created the store has
\* returned from a search on the index, in which the file is not indexed
\* under the hash of its content.
RefreshOnceWitness ==
  /\ startup.status = "done"
  /\ changes = 1
  /\ \E f \in Paths :
       /\ existsSync(disk, f)
       /\ f \in startup.upToDate
       /\ f \notin upToDateFiles(disk, db)
  /\ \E e \in Calls : e # startup.owner /\ AnsweredBySearch(e)

\* The call e is made in this step.
Called(e) == exec[e].pc \in {"idle", "returned"} /\ exec'[e].pc \notin {"idle", "returned"}

\* What the catch block of execute returns.
FallbackKinds == {"fallbackLines", "fallbackMessage", "searchFailed"}

\* C28: when the startup refresh throws at a file read, the call that runs
\* it returns from the catch block and the store stays set; from then on no
\* row changes, no indexDocument runs, the refresh is not started again, and
\* every call that is made goes to searchSimilar.
FailedRefreshNotResumed ==
  [][/\ (startup.status = "running" /\ startup'.status = "failed") =>
          /\ exec'[startup.owner].pc = "returned"
          /\ exec'[startup.owner].result.kind \in FallbackKinds
          /\ vectorStore' = "open"
     /\ (startup.status = "failed" /\ ProcessRuns') =>
          /\ vectorStore' = "open"
          /\ db' = db /\ tasks' = tasks /\ startup' = startup
          /\ \A e \in Calls : Called(e) => exec'[e].pc = "search"]_vars

\* C28 witness: the startup refresh indexed one file and failed at the read
\* of the next, which is in the directory and has no row, and the call that
\* ran the refresh, called again, has returned from a search on the index.
FailedRefreshNotResumedWitness ==
  /\ startup.status = "failed"
  /\ \E f, g \in Paths :
       /\ tasks[f].pc = "done" /\ tasks[f].stored # {}
       /\ existsSync(disk, g) /\ InSeq(startup.queue, g) /\ rowsOf(db, g) = {}
  /\ AnsweredBySearch(startup.owner)

\* C30: while the directory is as it was at the start, two calls answered
\* by the catch block have returned the same string, whatever their
\* queries.
FallbackIgnoresQuery ==
  \A e1, e2 \in Calls :
    (/\ changes = 0
     /\ exec[e1].pc = "returned" /\ exec[e1].result.kind \in FallbackKinds
     /\ exec[e2].pc = "returned" /\ exec[e2].result.kind \in FallbackKinds) =>
      exec[e1].result = exec[e2].result

\* C30 witness: two calls, one with the query "install" and one with "xxx",
\* have both returned the lines of the keyword scan of an unchanged
\* directory.
FallbackIgnoresQueryWitness ==
  /\ changes = 0
  /\ queries[1] = install /\ queries[2] = Rep(120, 3)
  /\ \A e \in Calls : exec[e].pc = "returned" /\ exec[e].result.kind = "fallbackLines"
  /\ exec[1].result.text # <<>>

(***************************************************************************)
(* Properties of the rebuild                                               *)
(***************************************************************************)
\* The rebuild has ended: refreshIndex has thrown or every callback has
\* settled, or the process is over.
RebuildEnded ==
  \/ call.op = "refreshIndex" /\ (call.threw \/ RebuildSettled)
  \/ call.op = "exited" /\ ~Hung

\* Every chunk of the file f, as the rebuild read it, is stored.
FullyIndexed(f) ==
  /\ tasks[f].pc = "done"
  /\ {r.chunk_index : r \in rowsOf(db, f)}
       = {j \in 0..Len(tasks[f].chunks) : j < Len(tasks[f].chunks)}

\* C15: when a rebuild in which reading a file failed has ended, the failed
\* file has no row and every other markdown file of the directory is fully
\* indexed.
RebuildIsolation ==
  (RebuildEnded /\ ReadFailed /\ NoEmbeddingFailure) =>
    \A f \in Paths :
      /\ tasks[f].pc = "threw" => rowsOf(db, f) = {}
      /\ (existsSync(disk, f) /\ tasks[f].pc # "threw") => FullyIndexed(f)

====
